---------------------------- MODULE Spec2Model ----------------------------
(***************************************************************************)
(* PageRank engine of pagerank.py: transition_model, sample_pagerank and   *)
(* iterate_pagerank over a corpus (page -> set of linked pages).           *)
(*                                                                         *)
(* Pages are named by their insertion position in the corpus dictionary,   *)
(* 1..N, so that "for p in corpus" and list(corpus.keys()) visit 1, 2, ... *)
(* Python floats are modelled in exact arithmetic: a number is a pair      *)
(* <<numerator, denominator>> in lowest terms with denominator > 0.        *)
(***************************************************************************)
EXTENDS Integers, Sequences, FiniteSets, TLC

VARIABLES
    call,            \* which function of pagerank.py is being run
    corpus,          \* argument: page -> set of pages it links to
    damping_factor,  \* argument (a rational)
    n,               \* argument of sample_pagerank (an integer)
    page,            \* argument of transition_model; loop variable of line 173
    pc,              \* position in the running function
    d,               \* sample_pagerank: visit counters; iterate_pagerank: ranks
    new_d,           \* iterate_pagerank: ranks computed by the current sweep
    pr_value_change, \* iterate_pagerank: last rank change looked at
    cur_sample,      \* sample_pagerank: current page of the walk
    i,               \* sample_pagerank: iterations of the loop of line 103 done
    p1,              \* iterate_pagerank: loop variable of line 149
    result,          \* the returned mapping, once pc = "done"
    err              \* the exception raised, once pc = "error"

vars == <<call, corpus, damping_factor, n, page, pc, d, new_d,
          pr_value_change, cur_sample, i, p1, result, err>>

-----------------------------------------------------------------------------
(* Bounds of the model *)

MaxPages == 3

MaxLinks == 3

MaxSamples == 3

MaxDen == 1000

-----------------------------------------------------------------------------
(* Exact arithmetic *)

(* An operator that uses an argument several times first binds it to a    *)
(* quantified variable (x \in {a}), so that the argument is evaluated once. *)

(* An operator that uses an argument more than once first binds it to a    *)
(* quantified variable (x \in {a}) and computes with that value, so that   *)
(* a nested expression passed as argument is evaluated a single time.      *)

Abs(x) == IF x < 0 THEN -x ELSE x

RECURSIVE GCD(_, _)
GCD(a, b) ==
    CHOOSE g \in {IF y = 0 THEN x ELSE GCD(y, x % y) : x \in {a}, y \in {b}} :
        TRUE

\* the rational a/b (b # 0) in lowest terms
Rat(a, b) ==
    CHOOSE r \in
        {LET g == GCD(Abs(x), Abs(y))
             s == IF y < 0 THEN -1 ELSE 1
         IN  <<(s * x) \div g, (s * y) \div g>> : x \in {a}, y \in {b}} : TRUE

Zero == <<0, 1>>
One == <<1, 1>>

RAdd(x, y) ==
    CHOOSE r \in
        {LET l == (u[2] \div GCD(u[2], v[2])) * v[2]
         IN  Rat(u[1] * (l \div u[2]) + v[1] * (l \div v[2]), l) :
            u \in {x}, v \in {y}} : TRUE

RNeg(x) == CHOOSE r \in {<<-u[1], u[2]>> : u \in {x}} : TRUE
RSub(x, y) == RAdd(x, RNeg(y))

RMul(x, y) ==
    CHOOSE r \in
        {LET a == Rat(u[1], v[2])
             b == Rat(v[1], u[2])
         IN  <<a[1] * b[1], a[2] * b[2]>> : u \in {x}, v \in {y}} : TRUE

\* x / k for an integer k # 0
RDivInt(x, k) == RMul(x, Rat(1, k))

RAbs(x) == CHOOSE r \in {<<Abs(u[1]), u[2]>> : u \in {x}} : TRUE

RLess(x, y) == \E u \in {x}, v \in {y} : u[1] * v[2] < v[1] * u[2]
RLeq(x, y) == \E u \in {x}, v \in {y} : u[1] * v[2] <= v[1] * u[2]

\* sum of f[k] over the set S
RECURSIVE RSum(_, _)
RSum(f, S) ==
    CHOOSE r \in
        {IF T = {} THEN Zero
         ELSE LET k == CHOOSE k \in T : TRUE
              IN  RAdd(g[k], RSum(g, T \ {k})) : g \in {f}, T \in {S}} : TRUE

-----------------------------------------------------------------------------
(* The corpus, as crawl() builds it *)

Pages(c) == DOMAIN c

len(c) == Cardinality(DOMAIN c)

RECURSIVE LinkCount(_, _)
LinkCount(c, S) ==
    IF S = {} THEN 0
    ELSE LET k == CHOOSE k \in S : TRUE
         IN  Cardinality(c[k]) + LinkCount(c, S \ {k})

\* graphs of N pages whose links stay inside the corpus (line 43-46)
LinkClosed(N) ==
    {c \in [1..N -> SUBSET (1..N)] : LinkCount(c, 1..N) <= MaxLinks}

\* and without a link from a page to itself (line 39)
Crawled(N) == {c \in LinkClosed(N) : \A p \in 1..N : p \notin c[p]}

Dampings == {<<-1, 2>>, Zero, <<1, 10>>, <<17, 20>>, One, <<3, 2>>}

Samples == (-1)..MaxSamples

\* 0 <= damping_factor <= 1
ValidDamping ==
    /\ 0 <= damping_factor[1]
    /\ damping_factor[1] <= damping_factor[2]

-----------------------------------------------------------------------------
(* transition_model, lines 51-83 *)

\* slip: the damped share is split over all pages, not over the links of pg
rand_link_page_over_corpus(c, pg, df) == RDivInt(df, len(c))

\* line 70
rand_link_page(c, pg, df) == RDivInt(df, Cardinality(c[pg]))

\* slip: the random-jump share is not divided among the pages
rand_page_corpus_undivided(c, df) == RSub(One, df)

\* line 73
rand_page_corpus(c, df) == RDivInt(RSub(One, df), len(c))

transition_model(c, pg, df) ==
    IF Cardinality(c[pg]) = 0
    THEN [p \in Pages(c) |-> Rat(1, len(c))]
    ELSE [p \in Pages(c) |->
            IF p \in c[pg]
            THEN RAdd(rand_page_corpus(c, df), rand_link_page(c, pg, df))
            ELSE rand_page_corpus(c, df)]

-----------------------------------------------------------------------------
(* The random source *)

\* random.choice(list(corpus.keys())), line 99: any key
choice(c) == Pages(c)

\* itertools.accumulate(weights): cum[k] = w[1] + ... + w[k]
RECURSIVE cum_weights(_, _)
cum_weights(w, k) ==
    CHOOSE r \in
        {IF j = 0 THEN Zero ELSE RAdd(cum_weights(w, j - 1), w[j]) :
            j \in {k}} : TRUE

RMin(x, y) == CHOOSE r \in {IF RLess(v, u) THEN v ELSE u : u \in {x}, v \in {y}} : TRUE
RMax(x, y) == CHOOSE r \in {IF RLess(u, v) THEN v ELSE u : u \in {x}, v \in {y}} : TRUE

\* bisect(a, x, lo, hi) for every x with xlo <= x < xhi; lo, hi and the
\* result count from 0 as in Python, a[k] is w's k-th cumulated weight
RECURSIVE bisect(_, _, _, _, _)
bisect(w, lo, hi, xlo, xhi) ==
    UNION {IF ~RLess(x0, x1) THEN {}
           ELSE IF ~(l < h) THEN {l}
           ELSE LET mid == (l + h) \div 2
                IN  UNION {bisect(w, l, mid, x0, RMin(x1, a))
                             \cup bisect(w, mid + 1, h, RMax(x0, a), x1) :
                           a \in {cum_weights(w, mid + 1)}} :
             l \in {lo}, h \in {hi}, x0 \in {xlo}, x1 \in {xhi}}

\* random.choices(population, weights=w, k=1)[0], line 115:
\* population[bisect(cum_weights, random() * total, 0, n - 1)], random() in [0, 1)
choices(w) ==
    UNION {LET N == Cardinality(DOMAIN v)
               total == cum_weights(v, N)
           IN  {k + 1 : k \in bisect(v, 0, N - 1, Zero, total)} : v \in {w}}

-----------------------------------------------------------------------------
(* Initial state: the module is loaded and nothing has been called; a call *)
(* binds the arguments of one of the three functions                       *)

NoMap == <<>>

Init ==
    /\ call = "none" /\ pc = "idle"
    /\ corpus = NoMap /\ damping_factor = Zero /\ n = 0 /\ page = 0
    /\ d = NoMap /\ new_d = NoMap /\ pr_value_change = Zero
    /\ cur_sample = 0 /\ i = 0 /\ p1 = 0
    /\ result = NoMap /\ err = ""

\* transition_model(corpus, page, damping_factor) with page a key of corpus
InvokeTransitionModel ==
    /\ pc = "idle"
    /\ call' = "transition_model"
    /\ \E N \in 1..MaxPages : corpus' \in LinkClosed(N)
    /\ damping_factor' \in Dampings
    /\ page' \in Pages(corpus')
    /\ pc' = "start"
    /\ UNCHANGED <<n, d, new_d, pr_value_change, cur_sample, i, p1, result,
                   err>>

\* sample_pagerank(corpus, damping_factor, n) on a corpus built by crawl
InvokeSample ==
    /\ pc = "idle"
    /\ call' = "sample_pagerank"
    /\ \E N \in 0..MaxPages : corpus' \in Crawled(N)
    /\ damping_factor' \in Dampings
    /\ n' \in Samples
    /\ pc' = "start"
    /\ UNCHANGED <<page, d, new_d, pr_value_change, cur_sample, i, p1,
                   result, err>>

\* iterate_pagerank(corpus, damping_factor) on a corpus built by crawl
InvokeIterate ==
    /\ pc = "idle"
    /\ call' = "iterate_pagerank"
    /\ \E N \in 0..MaxPages : corpus' \in Crawled(N)
    /\ damping_factor' \in Dampings
    /\ pc' = "start"
    /\ UNCHANGED <<n, page, d, new_d, pr_value_change, cur_sample, i, p1,
                   result, err>>

-----------------------------------------------------------------------------
(* A direct call of transition_model *)

TransitionModelCall ==
    /\ call = "transition_model" /\ pc = "start"
    /\ result' = transition_model(corpus, page, damping_factor)
    /\ pc' = "done"
    /\ UNCHANGED <<call, corpus, damping_factor, n, page, d, new_d,
                   pr_value_change, cur_sample, i, p1, err>>

-----------------------------------------------------------------------------
(* sample_pagerank, lines 86-124 *)

\* slip: the first sample is drawn but not counted (line 100 left out)
SampleFirstUncounted ==
    /\ call = "sample_pagerank" /\ pc = "start"
    /\ IF len(corpus) = 0
       THEN /\ d' = NoMap
            /\ pc' = "error" /\ err' = "IndexError"
            /\ UNCHANGED cur_sample
       ELSE /\ cur_sample' \in choice(corpus)
            /\ d' = [p \in Pages(corpus) |-> 0]
            /\ pc' = "loop"
            /\ UNCHANGED err
    /\ UNCHANGED <<call, corpus, damping_factor, n, page, new_d,
                   pr_value_change, i, p1, result>>

\* lines 96-100
SampleFirst ==
    /\ call = "sample_pagerank" /\ pc = "start"
    /\ IF len(corpus) = 0
       THEN /\ d' = NoMap
            /\ pc' = "error" /\ err' = "IndexError"
            /\ UNCHANGED cur_sample
       ELSE /\ \E s \in choice(corpus) :
                /\ cur_sample' = s
                /\ d' = [[p \in Pages(corpus) |-> 0] EXCEPT ![s] = 1]
            /\ pc' = "loop"
            /\ UNCHANGED err
    /\ UNCHANGED <<call, corpus, damping_factor, n, page, new_d,
                   pr_value_change, i, p1, result>>

\* one iteration of the loop of lines 103-121
SampleNext ==
    /\ call = "sample_pagerank" /\ pc = "loop"
    /\ i < n - 1
    /\ LET next_sample_dict ==
               transition_model(corpus, cur_sample, damping_factor)
       IN  \E next_sample \in choices(next_sample_dict) :
               /\ d' = [d EXCEPT ![next_sample] = @ + 1]
               /\ cur_sample' = next_sample
    /\ i' = i + 1
    /\ UNCHANGED <<call, corpus, damping_factor, n, page, pc, new_d,
                   pr_value_change, p1, result, err>>

\* line 124
SampleReturn ==
    /\ call = "sample_pagerank" /\ pc = "loop"
    /\ ~(i < n - 1)
    /\ IF n = 0
       THEN pc' = "error" /\ err' = "ZeroDivisionError" /\ UNCHANGED result
       ELSE /\ result' = [p \in Pages(corpus) |-> Rat(d[p], n)]
            /\ pc' = "done" /\ UNCHANGED err
    /\ UNCHANGED <<call, corpus, damping_factor, n, page, d, new_d,
                   pr_value_change, cur_sample, i, p1>>

-----------------------------------------------------------------------------
(* iterate_pagerank, lines 127-189 *)

\* the threshold 0.001 of lines 146 and 182
Threshold == <<1, 1000>>

\* the initial value 0.002 of line 143
InitialChange == <<2, 1000>>

\* slip: the sweep updates in place, reading the ranks it has just written
ReadRankInPlace(p2) == IF p2 < p1 THEN new_d[p2] ELSE d[p2]

\* the vector the sweep reads ranks from: d, lines 161 and 167
ReadRank(p2) == d[p2]

\* slip: a page without links gives nothing (lines 164-167 left out)
ContributionLinkedOnly(p2) ==
    IF p1 \in corpus[p2]
    THEN RDivInt(d[p2], Cardinality(corpus[p2])) ELSE Zero

\* what p2 adds to the summation for p1, lines 158-167
Contribution(p2) ==
    RAdd(IF p1 \in corpus[p2]
         THEN RDivInt(ReadRank(p2), Cardinality(corpus[p2])) ELSE Zero,
         IF Cardinality(corpus[p2]) = 0
         THEN RDivInt(ReadRank(p2), len(corpus)) ELSE Zero)

\* lines 152-167
summation == RSum([p2 \in Pages(corpus) |-> Contribution(p2)], Pages(corpus))

\* slip: the summation is not damped
NewRankUndamped ==
    RAdd(RDivInt(RSub(One, damping_factor), len(corpus)), summation)

\* the right-hand side of line 170
NewRank ==
    RAdd(RDivInt(RSub(One, damping_factor), len(corpus)),
         RMul(damping_factor, summation))

\* lines 137-143
IterateStart ==
    /\ call = "iterate_pagerank" /\ pc = "start"
    /\ d' = [p \in Pages(corpus) |-> Rat(1, len(corpus))]
    /\ new_d' = [p \in Pages(corpus) |-> Zero]
    /\ pr_value_change' = InitialChange
    /\ pc' = "while"
    /\ UNCHANGED <<call, corpus, damping_factor, n, page, cur_sample, i, p1,
                   result, err>>

\* the ranks are still small enough for the model to follow another sweep
WithinModel == \A p \in Pages(corpus) : d[p][2] <= MaxDen

\* the test of line 146, and the return of line 189 when it fails
IterateWhile ==
    /\ call = "iterate_pagerank" /\ pc = "while"
    /\ IF RLess(Threshold, pr_value_change)
       THEN /\ WithinModel
            /\ pc' = "sweep" /\ p1' = 1
            /\ UNCHANGED result
       ELSE /\ pc' = "done" /\ result' = d
            /\ UNCHANGED p1
    /\ UNCHANGED <<call, corpus, damping_factor, n, page, d, new_d,
                   pr_value_change, cur_sample, i, err>>

\* the model stops following a run whose ranks have outgrown MaxDen
IterateCutoff ==
    /\ call = "iterate_pagerank" /\ pc = "while"
    /\ RLess(Threshold, pr_value_change)
    /\ ~WithinModel
    /\ pc' = "cutoff"
    /\ UNCHANGED <<call, corpus, damping_factor, n, page, d, new_d,
                   pr_value_change, cur_sample, i, p1, result, err>>

\* one iteration of the loop of lines 149-170, or its end
IterateRank ==
    /\ call = "iterate_pagerank" /\ pc = "sweep"
    /\ IF p1 \in Pages(corpus)
       THEN /\ new_d' = [new_d EXCEPT ![p1] = NewRank]
            /\ p1' = p1 + 1
            /\ UNCHANGED <<pc, page>>
       ELSE /\ pc' = "compare" /\ page' = 1
            /\ UNCHANGED <<new_d, p1>>
    /\ UNCHANGED <<call, corpus, damping_factor, n, d, pr_value_change,
                   cur_sample, i, result, err>>

\* line 176
rank_value_change == RAbs(RSub(d[page], new_d[page]))

\* slip: the comparison loop has no break, so the last page decides
IterateCompareNoBreak ==
    /\ call = "iterate_pagerank" /\ pc = "compare"
    /\ IF page \in Pages(corpus)
       THEN /\ pr_value_change' = rank_value_change
            /\ page' = page + 1 /\ UNCHANGED pc
       ELSE /\ pc' = "copy"
            /\ UNCHANGED <<pr_value_change, page>>
    /\ UNCHANGED <<call, corpus, damping_factor, n, d, new_d, cur_sample, i,
                   p1, result, err>>

\* one iteration of the loop of lines 173-183, or its end
IterateCompare ==
    /\ call = "iterate_pagerank" /\ pc = "compare"
    /\ IF page \in Pages(corpus)
       THEN /\ pr_value_change' = rank_value_change
            /\ IF RLess(Threshold, rank_value_change)
               THEN pc' = "copy" /\ UNCHANGED page
               ELSE page' = page + 1 /\ UNCHANGED pc
       ELSE /\ pc' = "copy"
            /\ UNCHANGED <<pr_value_change, page>>
    /\ UNCHANGED <<call, corpus, damping_factor, n, d, new_d, cur_sample, i,
                   p1, result, err>>

\* line 186
IterateCopy ==
    /\ call = "iterate_pagerank" /\ pc = "copy"
    /\ d' = new_d
    /\ pc' = "while"
    /\ UNCHANGED <<call, corpus, damping_factor, n, page, new_d,
                   pr_value_change, cur_sample, i, p1, result, err>>


-----------------------------------------------------------------------------

\* a caller invokes one of the functions
Invoke ==
    \/ InvokeTransitionModel
    \/ InvokeSample
    \/ InvokeIterate

\* the invoked function runs its next statement
Run ==
    \/ TransitionModelCall
    \/ SampleFirst
    \/ SampleNext
    \/ SampleReturn
    \/ IterateStart
    \/ IterateWhile
    \/ IterateCutoff
    \/ IterateRank
    \/ IterateCompare
    \/ IterateCopy

Next == Invoke \/ Run

Spec == Init /\ [][Next]_vars

\* single-threaded and synchronous: a function that has been called keeps
\* executing until it returns or raises
FairSpec == Spec /\ WF_vars(Run)

-----------------------------------------------------------------------------
(* Vocabulary of the properties *)

NonEmpty == len(corpus) > 0

NoSelfLinks == \A p \in Pages(corpus) : p \notin corpus[p]

InUnitInterval(x) == RLeq(Zero, x) /\ RLeq(x, One)

Estimator == call \in {"sample_pagerank", "iterate_pagerank"}

InvalidConfiguration ==
    \/ ~ValidDamping
    \/ call = "sample_pagerank" /\ n <= 0

\* sum of the integer counters f[k] over S
RECURSIVE CountSum(_, _)
CountSum(f, S) ==
    IF S = {} THEN 0
    ELSE LET k == CHOOSE k \in S : TRUE
         IN  f[k] + CountSum(f, S \ {k})

-----------------------------------------------------------------------------
(* C1: for a non-empty link-closed graph, a key `page` and d in [0,1],     *)
(* transition_model returns a mapping over exactly the N pages; if `page`  *)
(* has no out-links every value is 1/N, otherwise p gets (1-d)/N, plus     *)
(* d/L when p is one of the L out-links of `page`.  With d = dn/dd the     *)
(* value a/b is compared by cross-multiplication:                          *)
(* a * (dd*N*L) = b * ((dd-dn)*L + [p linked] * dn*N).                     *)
C1_TransitionFormula ==
    (call = "transition_model" /\ pc = "done" /\ ValidDamping) =>
        LET N == len(corpus)
            L == Cardinality(corpus[page])
            dn == damping_factor[1]
            dd == damping_factor[2]
        IN  /\ DOMAIN result = Pages(corpus)
            /\ \A p \in Pages(corpus) :
                 IF L = 0
                 THEN result[p][1] * N = result[p][2]
                 ELSE result[p][1] * (dd * N * L)
                        = result[p][2] * ((dd - dn) * L
                             + (IF p \in corpus[page] THEN dn * N ELSE 0))

C1_Witness ==
    /\ call = "transition_model" /\ pc = "done"
    /\ damping_factor = <<17, 20>>
    /\ len(corpus) = 3
    /\ Cardinality(corpus[page]) = 2
    /\ page \in corpus[page]
    /\ \E p \in Pages(corpus) : p \notin corpus[page]

(* C2: for a valid graph (non-empty, link-closed, no self-links), a key    *)
(* `page` and d in [0,1], the values of transition_model are non-negative  *)
(* and sum to exactly 1.                                                   *)
C2_TransitionIsDistribution ==
    (call = "transition_model" /\ pc = "done" /\ ValidDamping
        /\ NoSelfLinks) =>
        /\ \A p \in Pages(corpus) : RLeq(Zero, result[p])
        /\ RSum(result, Pages(corpus)) = One

C2_Witness ==
    /\ call = "transition_model" /\ pc = "done"
    /\ damping_factor = <<17, 20>>
    /\ NoSelfLinks
    /\ len(corpus) = 3
    /\ Cardinality(corpus[page]) = 1
    /\ \E p \in Pages(corpus) : result[p] = <<9, 10>>

(* C3: for a valid non-empty graph, d in [0,1] and n >= 1, after the k-th  *)
(* sample (k = i + 1) the visit counters sum to k and the current page is  *)
(* a key; at return the counters sum to n and the returned ranks lie in    *)
(* [0,1] and sum to exactly 1.                                             *)
C3_SampleCounts ==
    (call = "sample_pagerank" /\ NonEmpty /\ ValidDamping /\ n >= 1) =>
        /\ pc \in {"start", "loop", "done"}
        /\ pc \in {"loop", "done"} =>
              /\ CountSum(d, Pages(corpus)) = i + 1
              /\ i + 1 <= n
              /\ cur_sample \in Pages(corpus)
              /\ d[cur_sample] >= 1
        /\ pc = "done" =>
              /\ CountSum(d, Pages(corpus)) = n
              /\ DOMAIN result = Pages(corpus)
              /\ \A p \in Pages(corpus) : InUnitInterval(result[p])
              /\ RSum(result, Pages(corpus)) = One

C3_Witness ==
    /\ call = "sample_pagerank" /\ pc = "done"
    /\ ValidDamping
    /\ n = MaxSamples /\ n >= 2
    /\ Cardinality({p \in Pages(corpus) : d[p] > 0}) >= 2

(* C4: for a valid non-empty graph and d in [0,1], iterate_pagerank keeps  *)
(* the rank vector summing to exactly 1: initially, after every sweep      *)
(* (the vector the sweep computed and the vector it is copied to), and in  *)
(* the returned mapping.                                                   *)
C4_MassConserved ==
    (call = "iterate_pagerank" /\ NonEmpty /\ ValidDamping) =>
        /\ pc # "start" => RSum(d, Pages(corpus)) = One
        /\ pc \in {"compare", "copy"} => RSum(new_d, Pages(corpus)) = One
        /\ pc = "done" => RSum(result, Pages(corpus)) = One

C4_Witness ==
    /\ call = "iterate_pagerank" /\ pc = "done"
    /\ ValidDamping
    /\ \E p \in Pages(corpus) : corpus[p] = {}
    /\ \E p, q \in Pages(corpus) : result[p] # result[q]

(* C5: iterate_pagerank leaves its loop only after a sweep in which every  *)
(* page's rank changed by at most 0.001: when the sweep's comparison ends  *)
(* with pr_value_change <= 0.001 no page of the whole vector changed by    *)
(* more, and when some page changed by more the loop goes on; the mapping  *)
(* returned is the vector that last sweep produced.                        *)
C5_StopsOnlyWhenAllWithin ==
    [][call = "iterate_pagerank" =>
        /\ pc = "copy" =>
              /\ pc' = "while" /\ d' = new_d
              /\ ~RLess(Threshold, pr_value_change)
                    => \A p \in Pages(corpus) :
                          RLeq(RAbs(RSub(d[p], new_d[p])), Threshold)
        /\ (pc = "while" /\ pc' = "done") =>
              /\ ~RLess(Threshold, pr_value_change)
              /\ d = new_d
              /\ result' = d
        /\ (pc = "while" /\ RLess(Threshold, pr_value_change)) =>
              pc' \in {"sweep", "cutoff"}
      ]_vars

C5_Witness ==
    /\ call = "iterate_pagerank" /\ pc = "done"
    /\ len(corpus) >= 2
    /\ \E p, q \in Pages(corpus) : result[p] # result[q]
    /\ damping_factor = <<1, 10>>

(* C6: for a valid non-empty graph and d in [0,1] (d = 1 included),        *)
(* iterate_pagerank does not run forever: it eventually returns or raises  *)
(* (a run the model has stopped following at MaxDen is not counted as      *)
(* running forever).                                                       *)
C6_IterateTerminates ==
    (call = "iterate_pagerank" /\ NonEmpty /\ ValidDamping)
        ~> (pc \in {"done", "error", "cutoff"})

(* C7: on a graph with zero pages both sample_pagerank and                 *)
(* iterate_pagerank end in an error: neither returns a mapping nor runs    *)
(* forever.                                                                *)
C7_EmptyCorpusFails ==
    (Estimator /\ ~NonEmpty) ~> (pc = "error")

(* C8: with an invalid configuration (d outside [0,1], or n <= 0 for the   *)
(* sampler) an estimator fails before any computation: it is either not    *)
(* yet started or has raised, no sample has been drawn, no counter or rank *)
(* has been written and no mapping is returned.                            *)
C8_InvalidConfigurationRejected ==
    (Estimator /\ InvalidConfiguration) =>
        /\ pc \in {"start", "error"}
        /\ cur_sample = 0
        /\ d = NoMap /\ new_d = NoMap
        /\ result = NoMap

\* the recurrence of the solver evaluated on the vector r alone
SnapshotRank(r, p) ==
    LET N == len(corpus)
        dn == damping_factor[1]
        dd == damping_factor[2]
        share == [q \in Pages(corpus) |->
                    IF corpus[q] = {} THEN RDivInt(r[q], N)
                    ELSE IF p \in corpus[q]
                         THEN RDivInt(r[q], Cardinality(corpus[q]))
                         ELSE Zero]
    IN  RAdd(Rat(dd - dn, dd * N),
             RMul(damping_factor, RSum(share, Pages(corpus))))

(* C9: during a sweep the previous rank vector d is not written; when the  *)
(* sweep has computed every page, each new rank is the recurrence applied  *)
(* to that previous vector alone (whatever was written earlier in the      *)
(* sweep); d is replaced, by the whole new vector, only by the copy that   *)
(* follows the sweep and its comparison.                                   *)
C9_SweepReadsSnapshot ==
    [][call = "iterate_pagerank" =>
        /\ pc \in {"sweep", "compare", "while"} => d' = d
        /\ (pc = "sweep" /\ p1 \in Pages(corpus)) =>
              \A q \in Pages(corpus) \ {p1} : new_d'[q] = new_d[q]
        /\ (pc = "sweep" /\ pc' = "compare") =>
              \A p \in Pages(corpus) : new_d[p] = SnapshotRank(d, p)
        /\ pc = "copy" => d' = new_d
      ]_vars

C9_Witness ==
    /\ call = "iterate_pagerank" /\ pc = "compare"
    /\ ValidDamping /\ damping_factor # Zero
    /\ len(corpus) = 3
    /\ \E p, q \in Pages(corpus) : d[p] # d[q]
    /\ \E p \in Pages(corpus) : new_d[p] # d[p]

(* C10: one sweep applies the Markov chain of transition_model: for a      *)
(* valid non-empty graph and d in [0,1], the new rank of every page p is   *)
(* the sum over all pages q of d[q] * transition_model(corpus, q, d)[p]    *)
(* (a page q without links so gives d[q]/N to every page, itself too).     *)
C10_SweepIsTransitionModel ==
    (call = "iterate_pagerank" /\ NonEmpty /\ ValidDamping
        /\ pc \in {"compare", "copy"}) =>
        \A p \in Pages(corpus) :
            new_d[p] =
                RSum([q \in Pages(corpus) |->
                        RMul(d[q],
                             transition_model(corpus, q, damping_factor)[p])],
                     Pages(corpus))

C10_Witness ==
    /\ call = "iterate_pagerank" /\ pc = "copy"
    /\ damping_factor = <<17, 20>>
    /\ \E q \in Pages(corpus) : corpus[q] = {}
    /\ \E q \in Pages(corpus) : Cardinality(corpus[q]) = 2
    /\ \E p, q \in Pages(corpus) : d[p] # d[q]

=============================================================================
